---------------------------- MODULE Spec2Model ----------------------------
(***************************************************************************)
(* Model of OasAutogenBuilder (dactyl): the builder's three header fields, *)
(* its setters, and build(), whose two nested loops over controllers and   *)
(* routes are modelled one iteration per step.                             *)
(***************************************************************************)
EXTENDS Integers, Sequences, FiniteSets, TLC

\* ------------------------------------------------------------------ bounds
MaxControllers == 2     \* longest controller list of the path scenarios
MaxRoutes == 3          \* most routes, in total, of one path scenario
MaxArgs == 3            \* longest args list of the argument scenarios
MaxDocs == 2            \* longest docs list of the documentation scenarios
MaxSetterCalls == 2     \* setter calls of one run of the header scenarios
MaxBuilds == 2          \* build calls of one run

\* ------------------------------------------------------- values and enums
\* JavaScript's undefined, where the value that may be missing is a string
UNDEFINED == "<undefined>"

OAS_VERSION == "3.0.0"
APP_VERSION == "1.0.0"
DEFAULT_TITLE == "OpenAPI Spec " \o OAS_VERSION \o " compliant documentation"
DEFAULT_DESC == "Autogenerated OAS documentation by Dactyl"

HttpMethod_GET == "GET"
HttpMethod_POST == "POST"
HttpMethod_PUT == "PUT"
HttpMethods == {HttpMethod_GET, HttpMethod_POST, HttpMethod_PUT}

ArgsType_PARAM == "PARAM"
ArgsType_QUERY == "QUERY"
ArgsType_HEADER == "HEADER"
ArgsType_BODY == "BODY"
ArgsType_CONTEXT == "CONTEXT"
ArgsType_REQUEST == "REQUEST"
ArgsType_RESPONSE == "RESPONSE"
ArgsTypes == {ArgsType_PARAM, ArgsType_QUERY, ArgsType_HEADER, ArgsType_BODY,
              ArgsType_CONTEXT, ArgsType_REQUEST, ArgsType_RESPONSE}

\* the builder object itself, as returned by the setters
This == "OasAutogenBuilder#1"
NoReturn == "<none>"

\* an object without properties ({}), also an empty Map
EmptyObject == <<>>

\* ------------------------------------------------------- metadata records
RouteDefinition(methodName, path, requestMethod) ==
  [methodName |-> methodName, path |-> path, requestMethod |-> requestMethod]

DocDefinition(docFor, description) ==
  [docFor |-> docFor, model |-> [description |-> description]]

RouteArgument(argFor, type, key) ==
  [argFor |-> argFor, type |-> type, key |-> key]

ControllerMetadata(prefix, routes, docs, defaultResponseCodes, args, argTypes) ==
  [prefix |-> prefix, routes |-> routes, docs |-> docs,
   defaultResponseCodes |-> defaultResponseCodes, args |-> args,
   argTypes |-> argTypes]

\* a class of the controllers list: one the registry knows, or one it does not
Registered(meta) == [hasMeta |-> TRUE, meta |-> meta]
Unregistered ==
  [hasMeta |-> FALSE,
   meta |-> ControllerMetadata(UNDEFINED, <<>>, <<>>, EmptyObject, <<>>, EmptyObject)]

\* ---------------------------------------------------------------- helpers
\* all sequences over S of length at most n
SeqsUpTo(S, n) == UNION {[1..k -> S] : k \in 0..n}

\* all maps from some of the keys K to values of V
PartialMaps(K, V) == UNION {[S -> V] : S \in SUBSET K}

\* Map.prototype.get, for the maps whose values are numbers: has is FALSE
\* where get returns undefined
MapHas(map, key) == key \in DOMAIN map

\* ------------------------------------------- the body of the routes loop
\* ResolveCode with || in place of ??: an explicit code 0 is passed over
ResolveCodeFalsy(defaultResponseCodes, routeDef) ==
  IF /\ MapHas(defaultResponseCodes, routeDef.methodName)
     /\ defaultResponseCodes[routeDef.methodName] # 0
  THEN defaultResponseCodes[routeDef.methodName]
  ELSE IF routeDef.requestMethod = HttpMethod_POST THEN 201 ELSE 200

\* the response code of a route: defaultResponseCodes.get(methodName) ??
\* (requestMethod === POST ? 201 : 200)
ResolveCode(defaultResponseCodes, routeDef) ==
  IF MapHas(defaultResponseCodes, routeDef.methodName)
  THEN defaultResponseCodes[routeDef.methodName]
  ELSE IF routeDef.requestMethod = HttpMethod_POST THEN 201 ELSE 200

\* RetainedArg without the test of RESPONSE
RetainedArgKeepsResponse(arg, routeDef) ==
  /\ arg.argFor = routeDef.methodName
  /\ arg.type # ArgsType_BODY /\ arg.type # ArgsType_CONTEXT
  /\ arg.type # ArgsType_REQUEST

\* the predicate of args.filter
RetainedArg(arg, routeDef) ==
  /\ arg.argFor = routeDef.methodName
  /\ arg.type # ArgsType_BODY /\ arg.type # ArgsType_CONTEXT
  /\ arg.type # ArgsType_REQUEST /\ arg.type # ArgsType_RESPONSE

\* RelabelArg that leaves a PARAM argument as it is
RelabelArgNever(arg) == arg

\* the function of .map after the filter: a PARAM argument gets type "path"
RelabelArg(arg) ==
  IF arg.type = ArgsType_PARAM THEN [arg EXCEPT !.type = "path"] ELSE arg

\* args.filter(...).map(...): filter keeps the order of args
FilteredArgs(args, routeDef) ==
  LET Keep(arg) == RetainedArg(arg, routeDef)
      kept == SelectSeq(args, Keep)
  IN  [i \in DOMAIN kept |-> RelabelArg(kept[i])]

\* argTypes.get(methodName) ?? []
FilteredArgTypes(argTypes, routeDef) ==
  IF MapHas(argTypes, routeDef.methodName) THEN argTypes[routeDef.methodName]
  ELSE <<>>

\* TypeAt reading one position too far
TypeAtOffByOne(filteredArgTypes, index) ==
  IF index + 1 \in DOMAIN filteredArgTypes THEN filteredArgTypes[index + 1]
  ELSE UNDEFINED

\* filteredArgTypes[index]: undefined past the end of the array (the model
\* counts positions from 1, the code from 0)
TypeAt(filteredArgTypes, index) ==
  IF index \in DOMAIN filteredArgTypes THEN filteredArgTypes[index] ELSE UNDEFINED

Parameters(filteredArgs, filteredArgTypes) ==
  [index \in DOMAIN filteredArgs |->
     [name |-> filteredArgs[index].key,
      in |-> filteredArgs[index].type,
      schema |-> [type |-> TypeAt(filteredArgTypes, index)]]]

\* Description taking the last matching docs entry instead of the first
DescriptionLastMatch(docs, routeDef) ==
  LET hits == {i \in DOMAIN docs : docs[i].docFor = routeDef.methodName}
  IN  IF hits = {} THEN routeDef.methodName
      ELSE docs[CHOOSE i \in hits : \A j \in hits : j <= i].model.description

\* docs.find(...): the first entry whose docFor is the methodName; found is
\* FALSE where find returns undefined
FindDoc(docs, routeDef) ==
  LET hits == {i \in DOMAIN docs : docs[i].docFor = routeDef.methodName}
  IN  IF hits = {} THEN [found |-> FALSE, value |-> DocDefinition(UNDEFINED, UNDEFINED)]
      ELSE [found |-> TRUE,
            value |-> docs[CHOOSE i \in hits : \A j \in hits : i <= j]]

\* docDef?.model.description ?? routeDef.methodName
Description(docs, routeDef) ==
  LET docDef == FindDoc(docs, routeDef)
  IN  IF docDef.found /\ docDef.value.model.description # UNDEFINED
      THEN docDef.value.model.description
      ELSE routeDef.methodName

\* prefix + routeDef.path
RequestPath(prefix, routeDef) == prefix \o routeDef.path

\* the object stored at paths[requestPath][requestMethod]
Operation(meta, routeDef) ==
  [description |-> Description(meta.docs, routeDef),
   responses |->
     (ToString(ResolveCode(meta.defaultResponseCodes, routeDef))
        :> [description |-> ""]),
   parameters |-> Parameters(FilteredArgs(meta.args, routeDef),
                             FilteredArgTypes(meta.argTypes, routeDef))]

\* PutOperation that keeps an entry already stored for the method
PutOperationFirstWins(table, requestPath, requestMethod, operation) ==
  LET withPath == IF requestPath \in DOMAIN table THEN table
                  ELSE table @@ (requestPath :> EmptyObject)
  IN  [withPath EXCEPT ![requestPath] = @ @@ (requestMethod :> operation)]

\* if (!paths[requestPath]) paths[requestPath] = {};
\* paths[requestPath][requestMethod] = operation
PutOperation(table, requestPath, requestMethod, operation) ==
  LET withPath == IF requestPath \in DOMAIN table THEN table
                  ELSE table @@ (requestPath :> EmptyObject)
  IN  [withPath EXCEPT ![requestPath] = (requestMethod :> operation) @@ @]

\* getControllerOwnMeta: the metadata of a class, found is FALSE for undefined
getControllerOwnMeta(controller) ==
  [found |-> controller.hasMeta, value |-> controller.meta]

\* SkipsController testing the metadata only, not its prefix
SkipsControllerMetaOnly(controller) ==
  ~getControllerOwnMeta(controller).found

\* !meta || !meta.prefix: undefined and the empty string are both falsy
SkipsController(controller) ==
  LET meta == getControllerOwnMeta(controller)
  IN  \/ ~meta.found
      \/ meta.value.prefix = UNDEFINED
      \/ meta.value.prefix = ""

\* JSON.stringify of the document: a property whose value is undefined is
\* left out, everything else is kept as it is
StringifyParameter(param) ==
  IF param.schema.type = UNDEFINED
  THEN [name |-> param.name, in |-> param.in, schema |-> EmptyObject]
  ELSE param

StringifyOperation(operation) ==
  [operation EXCEPT
     !.parameters = [i \in DOMAIN @ |-> StringifyParameter(@[i])]]

Stringify(root) ==
  [root EXCEPT
     !.paths = [p \in DOMAIN root.paths |->
                  [m \in DOMAIN root.paths[p] |->
                     StringifyOperation(root.paths[p][m])]]]

\* ------------------------------------------------------------ scenarios
\* The metadata the decorators registered before build is called.  Each
\* family of scenarios varies the part of the metadata one step of the
\* routes loop reads, and keeps the rest small.
RouteName(i, j) == "c" \o ToString(i) \o "r" \o ToString(j)

TwoRoutes(method1, method2) ==
  <<RouteDefinition("m1", "/x", method1), RouteDefinition("m2", "/y", method2)>>

\* response codes: two routes of any methods, any explicit codes
ResponseCodes == {0, 200, 201, 404}
CodeScenarios ==
  {<<Registered(ControllerMetadata("/a", TwoRoutes(rm1, rm2), <<>>, codes,
                                   <<>>, EmptyObject))>> :
     rm1 \in HttpMethods, rm2 \in HttpMethods,
     codes \in PartialMaps({"m1", "m2"}, ResponseCodes)}

\* arguments: the i-th argument has the i-th key; an argument of m1 is a
\* PARAM, a QUERY or of an excluded type, one of m2 is a HEADER; the types
\* of m1 are absent, or one or two labels, m2 has none
ArgKeys == <<"id", "q", "h", "x", "y">>
TypeLabels == <<"string", "number">>
ArgShapes ==
  ({"m1"} \X (ArgsTypes \ {ArgsType_HEADER})) \cup ({"m2"} \X {ArgsType_HEADER})
ArgLists ==
  UNION {{[i \in 1..n |-> RouteArgument(sh[i][1], sh[i][2], ArgKeys[i])] :
            sh \in [1..n -> ArgShapes]} :
         n \in 0..MaxArgs}
ArgTypeMaps ==
  {EmptyObject} \cup {("m1" :> SubSeq(TypeLabels, 1, k)) : k \in 1..2}
ArgScenarios ==
  {<<Registered(ControllerMetadata("/a",
                                   TwoRoutes(HttpMethod_GET, HttpMethod_POST),
                                   <<>>, EmptyObject, args, argTypes))>> :
     args \in ArgLists, argTypes \in ArgTypeMaps}

\* documentation: entries for m1, for m2 and for a name no route has
DocEntries ==
  {DocDefinition(docFor, d) : docFor \in {"m1", "m2", "other"},
                              d \in {"", "first", "second"}}
DocScenarios ==
  {<<Registered(ControllerMetadata("/a",
                                   TwoRoutes(HttpMethod_GET, HttpMethod_POST),
                                   docs, EmptyObject, <<>>, EmptyObject))>> :
     docs \in SeqsUpTo(DocEntries, MaxDocs)}

\* paths: lists of classes: one without metadata, one with a prefix that is
\* absent or empty, a controller of prefix "/a" with any routes, and one of
\* prefix "/a/x" whose route meets "/a" + "/x"
RouteShapes ==
  {<<"/x", HttpMethod_GET>>, <<"/x", HttpMethod_POST>>, <<"", HttpMethod_GET>>}
NamedRoutes(i, shapes) ==
  [j \in DOMAIN shapes |-> RouteDefinition(RouteName(i, j), shapes[j][1], shapes[j][2])]
PathMeta(i, prefix, shapes) ==
  ControllerMetadata(prefix, NamedRoutes(i, shapes), <<>>, EmptyObject, <<>>,
                     EmptyObject)
PathControllers(i, budget) ==
  {Unregistered}
    \cup {Registered(PathMeta(i, "/a", shapes)) :
            shapes \in SeqsUpTo(RouteShapes, budget)}
    \cup (IF budget = 0 THEN {}
          ELSE {Registered(PathMeta(i, prefix, <<<<"/x", HttpMethod_GET>>>>)) :
                  prefix \in {UNDEFINED, ""}}
                 \cup {Registered(PathMeta(i, "/a/x", <<<<"", HttpMethod_GET>>>>))})

RECURSIVE PathLists(_, _, _)
PathLists(i, n, budget) ==
  IF i > n THEN {<<>>}
  ELSE UNION {{<<c>> \o rest :
                 rest \in PathLists(i + 1, n, budget - Len(c.meta.routes))} :
              c \in PathControllers(i, budget)}
PathScenarios == UNION {PathLists(1, n, MaxRoutes) : n \in 0..MaxControllers}

\* header: the values the setters are called with
Titles == {"My API", "Other API"}
Descs == {"My description", ""}
Versions == {"2.0.0", "0.0.1"}
HeaderScenarios ==
  {<<>>, <<Unregistered>>,
   <<Registered(PathMeta(1, "/a", <<<<"/x", HttpMethod_GET>>>>))>>}

\* ---------------------------------------------------------------- state
VARIABLES
  title, desc, applicationVersion,   \* this.#title, #desc, #applicationVersion
  controllers,     \* this.#appConfig.controllers, with the registered metadata
  pc,              \* "idle", or where build is: "controllers", "routes"
  ci, ri,          \* the controller and the route the loops are at
  OAS_ROOT,        \* the object OAS_ROOT of the running or the last build
  paths,           \* the object paths of the running or the last build
  aliased,         \* OAS_ROOT.paths has been assigned the object paths
  console,         \* what console.log has written, in order
  ret,             \* what the last call of a setter returned
  history,         \* the calls made on the builder, in order
  callsLeft        \* how many more setter calls this run makes

vars == <<title, desc, applicationVersion, controllers, pc, ci, ri, OAS_ROOT,
          paths, aliased, console, ret, history, callsLeft>>

build_vars == <<pc, ci, ri, OAS_ROOT, paths, aliased, console>>

\* after the constructor
Init ==
  /\ title = DEFAULT_TITLE
  /\ desc = DEFAULT_DESC
  /\ applicationVersion = APP_VERSION
  /\ \/ /\ controllers \in HeaderScenarios
        /\ callsLeft = MaxSetterCalls
     \/ /\ controllers \in CodeScenarios \cup ArgScenarios \cup DocScenarios
                             \cup PathScenarios
        /\ callsLeft = 0
  /\ pc = "idle"
  /\ ci = 1
  /\ ri = 1
  /\ OAS_ROOT = EmptyObject
  /\ paths = EmptyObject
  /\ aliased = FALSE
  /\ console = <<>>
  /\ ret = NoReturn
  /\ history = <<>>

Call(op, arg) == [op |-> op, arg |-> arg]

addTitle(t) ==
  /\ pc = "idle" /\ callsLeft > 0
  /\ title' = t
  /\ ret' = This
  /\ history' = Append(history, Call("addTitle", t))
  /\ callsLeft' = callsLeft - 1
  /\ UNCHANGED <<desc, applicationVersion, controllers, build_vars>>

addDesc(d) ==
  /\ pc = "idle" /\ callsLeft > 0
  /\ desc' = d
  /\ ret' = This
  /\ history' = Append(history, Call("addDesc", d))
  /\ callsLeft' = callsLeft - 1
  /\ UNCHANGED <<title, applicationVersion, controllers, build_vars>>

addApplicationVersion(version) ==
  /\ pc = "idle" /\ callsLeft > 0
  /\ applicationVersion' = version
  /\ ret' = This
  /\ history' = Append(history, Call("addApplicationVersion", version))
  /\ callsLeft' = callsLeft - 1
  /\ UNCHANGED <<title, desc, controllers, build_vars>>

\* NewRoot with the version and the description taken from each other
NewRootSwapped(t, v, d) ==
  [openapi |-> OAS_VERSION,
   info |-> [title |-> t, version |-> d, description |-> v],
   paths |-> EmptyObject,
   components |-> [schemas |-> EmptyObject, responses |-> EmptyObject,
                   parameters |-> EmptyObject, examples |-> EmptyObject,
                   requestBodies |-> EmptyObject, headers |-> EmptyObject,
                   securitySchemes |-> EmptyObject, links |-> EmptyObject,
                   callbacks |-> EmptyObject]]

\* the object literal OAS_ROOT
NewRoot(t, v, d) ==
  [openapi |-> OAS_VERSION,
   info |-> [title |-> t, version |-> v, description |-> d],
   paths |-> EmptyObject,
   components |-> [schemas |-> EmptyObject, responses |-> EmptyObject,
                   parameters |-> EmptyObject, examples |-> EmptyObject,
                   requestBodies |-> EmptyObject, headers |-> EmptyObject,
                   securitySchemes |-> EmptyObject, links |-> EmptyObject,
                   callbacks |-> EmptyObject]]

\* OAS_ROOT as a value: once OAS_ROOT.paths is the object paths, it shows
\* every later write to paths
RootValue == IF aliased THEN [OAS_ROOT EXCEPT !.paths = paths] ELSE OAS_ROOT

NumBuilds == Cardinality({i \in DOMAIN history : history[i].op = "build"})

\* build, up to the first controller
BuildStart ==
  /\ pc = "idle" /\ NumBuilds < MaxBuilds
  /\ OAS_ROOT' = NewRoot(title, applicationVersion, desc)
  /\ paths' = EmptyObject
  /\ aliased' = FALSE
  /\ ci' = 1
  /\ ri' = 1
  /\ pc' = "controllers"
  /\ history' = Append(history, Call("build", ""))
  /\ UNCHANGED <<title, desc, applicationVersion, controllers, console, ret,
                 callsLeft>>

\* if (!meta || !meta.prefix) continue
SkipController ==
  /\ pc = "controllers" /\ ci <= Len(controllers)
  /\ SkipsController(controllers[ci])
  /\ ci' = ci + 1
  /\ UNCHANGED <<title, desc, applicationVersion, controllers, pc, ri,
                 OAS_ROOT, paths, aliased, console, ret, history, callsLeft>>

\* a controller with a prefix: enter the loop over its routes
EnterController ==
  /\ pc = "controllers" /\ ci <= Len(controllers)
  /\ ~SkipsController(controllers[ci])
  /\ ri' = 1
  /\ pc' = "routes"
  /\ UNCHANGED <<title, desc, applicationVersion, controllers, ci, OAS_ROOT,
                 paths, aliased, console, ret, history, callsLeft>>

\* RouteStep relabelling the PARAM arguments of the route in the metadata
\* itself instead of in a copy
RouteStepInPlace ==
  /\ pc = "routes"
  /\ LET meta == getControllerOwnMeta(controllers[ci]).value
     IN  /\ ri <= Len(meta.routes)
         /\ LET routeDef == meta.routes[ri]
            IN  /\ paths' = PutOperation(paths, RequestPath(meta.prefix, routeDef),
                                         routeDef.requestMethod,
                                         Operation(meta, routeDef))
                /\ controllers' =
                     [controllers EXCEPT ![ci].meta.args =
                        [i \in DOMAIN @ |->
                           IF RetainedArg(@[i], routeDef) THEN RelabelArg(@[i])
                           ELSE @[i]]]
  /\ ri' = ri + 1
  /\ UNCHANGED <<title, desc, applicationVersion, pc, ci, OAS_ROOT, aliased,
                 console, ret, history, callsLeft>>

\* one iteration of the loop over routes
RouteStep ==
  /\ pc = "routes"
  /\ LET meta == getControllerOwnMeta(controllers[ci]).value
     IN  /\ ri <= Len(meta.routes)
         /\ LET routeDef == meta.routes[ri]
            IN  paths' = PutOperation(paths, RequestPath(meta.prefix, routeDef),
                                      routeDef.requestMethod,
                                      Operation(meta, routeDef))
  /\ ri' = ri + 1
  /\ UNCHANGED <<title, desc, applicationVersion, controllers, pc, ci,
                 OAS_ROOT, aliased, console, ret, history, callsLeft>>

\* after the last route of a controller: OAS_ROOT.paths = paths
EndController ==
  /\ pc = "routes"
  /\ ri > Len(getControllerOwnMeta(controllers[ci]).value.routes)
  /\ aliased' = TRUE
  /\ ci' = ci + 1
  /\ pc' = "controllers"
  /\ UNCHANGED <<title, desc, applicationVersion, controllers, ri, OAS_ROOT,
                 paths, console, ret, history, callsLeft>>

\* after the last controller: console.log(JSON.stringify(OAS_ROOT, null, 2))
BuildEnd ==
  /\ pc = "controllers" /\ ci > Len(controllers)
  /\ console' = Append(console, Stringify(RootValue))
  /\ pc' = "idle"
  /\ UNCHANGED <<title, desc, applicationVersion, controllers, ci, ri,
                 OAS_ROOT, paths, aliased, ret, history, callsLeft>>

Next ==
  \/ \E t \in Titles : addTitle(t)
  \/ \E d \in Descs : addDesc(d)
  \/ \E version \in Versions : addApplicationVersion(version)
  \/ BuildStart
  \/ SkipController
  \/ EnterController
  \/ RouteStep
  \/ EndController
  \/ BuildEnd

Spec == Init /\ [][Next]_vars

\* ------------------------------------------------- vocabulary of claims
\* a step of the routes loop, seen from the state before it
IsRouteStep == pc = "routes" /\ ri' = ri + 1
StepMeta == controllers[ci].meta
StepRoute == StepMeta.routes[ri]
StepPath == StepMeta.prefix \o StepRoute.path

\* the route the loop has just stored, seen from the state after it
JustStored == pc = "routes" /\ ri > 1
LastRoute == StepMeta.routes[ri - 1]
LastPath == StepMeta.prefix \o LastRoute.path
LastOperation == paths[LastPath][LastRoute.requestMethod]

ExcludedTypes ==
  {ArgsType_BODY, ArgsType_CONTEXT, ArgsType_REQUEST, ArgsType_RESPONSE}

\* the arguments of a route that are published, in declaration order
PublishedArgs(meta, routeDef) ==
  SelectSeq(meta.args,
            LAMBDA a : a.argFor = routeDef.methodName /\ a.type \notin ExcludedTypes)

\* a build has run to its end and none is running
Built == pc = "idle" /\ console # <<>>

\* C1: the operation a step of the routes loop stores has exactly one
\* response key: the explicit code of defaultResponseCodes for the route's
\* methodName when there is one, else 201 for POST and 200 for any other
\* method.
C1_ResponseCode ==
  [][IsRouteStep =>
       LET codes == StepMeta.defaultResponseCodes
           name == StepRoute.methodName
           expected == IF name \in DOMAIN codes THEN codes[name]
                       ELSE IF StepRoute.requestMethod = "POST" THEN 201
                       ELSE 200
       IN  DOMAIN paths'[StepPath][StepRoute.requestMethod].responses
             = {ToString(expected)}]_vars

\* a POST route stored with its explicit code 0, and a route that is not
\* POST stored with 200 for want of an explicit code
C1_Witness ==
  /\ JustStored /\ ri = 3
  /\ StepMeta.routes[1].requestMethod = "POST"
  /\ "m1" \in DOMAIN StepMeta.defaultResponseCodes
  /\ StepMeta.defaultResponseCodes["m1"] = 0
  /\ DOMAIN paths["/a/x"]["POST"].responses = {"0"}
  /\ LastRoute.requestMethod = "PUT"
  /\ LastRoute.methodName \notin DOMAIN StepMeta.defaultResponseCodes
  /\ DOMAIN LastOperation.responses = {"200"}

\* C2: the names of the parameters a step stores are the keys of the args
\* entries of that route whose type is none of BODY, CONTEXT, REQUEST,
\* RESPONSE, in the order of args.
C2_ParameterNames ==
  [][IsRouteStep =>
       LET params == paths'[StepPath][StepRoute.requestMethod].parameters
           published == PublishedArgs(StepMeta, StepRoute)
       IN  /\ Len(params) = Len(published)
           /\ \A i \in DOMAIN params : params[i].name = published[i].key]_vars

\* a route with an argument of an excluded type and an argument of the
\* other route, stored with its one published argument
C2_Witness ==
  /\ JustStored
  /\ \E i, j, k \in DOMAIN StepMeta.args :
       /\ StepMeta.args[i].argFor = LastRoute.methodName
       /\ StepMeta.args[i].type \in ExcludedTypes
       /\ StepMeta.args[j].argFor # LastRoute.methodName
       /\ StepMeta.args[k].argFor = LastRoute.methodName
       /\ StepMeta.args[k].type \notin ExcludedTypes
       /\ Len(LastOperation.parameters) = 1
       /\ LastOperation.parameters[1].name = StepMeta.args[k].key

\* C3: a published argument of type PARAM is stored with in = "path", a
\* published argument of any other type with in = its own type; name is
\* the argument's key.
C3_ParameterIn ==
  [][IsRouteStep =>
       LET params == paths'[StepPath][StepRoute.requestMethod].parameters
           published == PublishedArgs(StepMeta, StepRoute)
       IN  /\ Len(params) = Len(published)
           /\ \A i \in DOMAIN params :
                /\ params[i].name = published[i].key
                /\ params[i].in = IF published[i].type = "PARAM" THEN "path"
                                  ELSE published[i].type]_vars

\* a route stored with a PARAM argument as "path" and a QUERY argument as
\* QUERY
C3_Witness ==
  /\ JustStored
  /\ Len(LastOperation.parameters) = 2
  /\ \E i, j \in DOMAIN StepMeta.args :
       /\ StepMeta.args[i].type = "PARAM" /\ StepMeta.args[j].type = "QUERY"
       /\ \E a, b \in 1..2 :
            /\ LastOperation.parameters[a].name = StepMeta.args[i].key
            /\ LastOperation.parameters[a].in = "path"
            /\ LastOperation.parameters[b].name = StepMeta.args[j].key
            /\ LastOperation.parameters[b].in = "QUERY"

\* the routes the running or the last build has gone through, as pairs of
\* a controller's position and a route's position
Contributes(c) == c.hasMeta /\ c.meta.prefix # UNDEFINED /\ c.meta.prefix # ""
ProcessedRoutes ==
  {ij \in UNION {{<<i, j>> : j \in DOMAIN controllers[i].meta.routes} :
                    i \in DOMAIN controllers} :
     /\ Contributes(controllers[ij[1]])
     /\ \/ ij[1] < ci
        \/ ij[1] = ci /\ pc = "routes" /\ ij[2] < ri}
RouteAt(ij) == controllers[ij[1]].meta.routes[ij[2]]
PathAt(ij) == controllers[ij[1]].meta.prefix \o RouteAt(ij).path
SameSlot(a, b) ==
  PathAt(a) = PathAt(b) /\ RouteAt(a).requestMethod = RouteAt(b).requestMethod
Before(a, b) == a[1] < b[1] \/ (a[1] = b[1] /\ a[2] <= b[2])
\* the route processed last among those of the same path and method
LastOfSlot(a) ==
  CHOOSE b \in ProcessedRoutes :
    SameSlot(a, b) /\ \A c \in ProcessedRoutes : SameSlot(a, c) => Before(c, b)

\* C4: at any point of build, the entry of a path and a method is the
\* operation of the route processed last among the routes of that path and
\* method (controllers in list order, routes in declared order); a step
\* leaves the entries of every other path and method as they were; the
\* document of a finished build holds these entries.
C4_LastWriteWins ==
  /\ [](\A a \in ProcessedRoutes :
          /\ PathAt(a) \in DOMAIN paths
          /\ RouteAt(a).requestMethod \in DOMAIN paths[PathAt(a)]
          /\ paths[PathAt(a)][RouteAt(a).requestMethod]
               = Operation(controllers[LastOfSlot(a)[1]].meta,
                           RouteAt(LastOfSlot(a))))
  /\ [](Built => RootValue.paths = paths)
  /\ [][IsRouteStep =>
          \A p \in DOMAIN paths : \A m \in DOMAIN paths[p] :
            (p # StepPath \/ m # StepRoute.requestMethod)
              => /\ p \in DOMAIN paths' /\ m \in DOMAIN paths'[p]
                 /\ paths'[p][m] = paths[p][m]]_vars

\* two controllers with a route of the same path and method, "/a/x" made
\* of two different prefixes, and the document holding the second one's
\* operation next to an entry of another method
C4_Witness ==
  /\ Built
  /\ Len(controllers) = 2
  /\ Contributes(controllers[1]) /\ Contributes(controllers[2])
  /\ controllers[1].meta.prefix # controllers[2].meta.prefix
  /\ <<1, 2>> \in ProcessedRoutes /\ <<2, 1>> \in ProcessedRoutes
  /\ SameSlot(<<1, 1>>, <<2, 1>>)
  /\ ~SameSlot(<<1, 1>>, <<1, 2>>) /\ PathAt(<<1, 1>>) = PathAt(<<1, 2>>)
  /\ console[Len(console)].paths[PathAt(<<1, 1>>)][RouteAt(<<1, 1>>).requestMethod]
       .description = RouteAt(<<2, 1>>).methodName
  /\ console[Len(console)].paths[PathAt(<<1, 2>>)][RouteAt(<<1, 2>>).requestMethod]
       .description = RouteAt(<<1, 2>>).methodName

\* a class the metadata lookup knows nothing of, or whose metadata has no
\* prefix
HasNoPrefix(c) == ~c.hasMeta \/ c.meta.prefix = UNDEFINED

\* C5: when the controllers loop is at a class without metadata or without
\* a prefix, its step is the same in both cases: it moves to the next class
\* and changes nothing else, so the class adds no entry to paths and the
\* build goes on.
C5_SkipRule ==
  [][(pc = "controllers" /\ ci <= Len(controllers)
        /\ HasNoPrefix(controllers[ci]))
       => /\ ci' = ci + 1
          /\ UNCHANGED <<pc, ri, OAS_ROOT, paths, aliased, console, title,
                         desc, applicationVersion, controllers>>]_vars

\* a finished build of a class with routes but no prefix followed by a
\* controller: only the controller's routes are in the document
C5_Witness ==
  /\ Built
  /\ Len(controllers) = 2
  /\ controllers[1].hasMeta /\ controllers[1].meta.prefix = UNDEFINED
  /\ controllers[1].meta.routes # <<>>
  /\ Contributes(controllers[2]) /\ Len(controllers[2].meta.routes) = 2
  /\ DOMAIN console[Len(console)].paths = {PathAt(<<2, 1>>), PathAt(<<2, 2>>)}

\* C8 as claimed: after build, every route of every controller with a
\* defined prefix, the empty string included, has its entry at
\* paths[prefix + path][requestMethod], and every path and method of paths
\* comes from such a route.
C8_EveryDefinedPrefix ==
  Built =>
    /\ \A i \in DOMAIN controllers :
         (controllers[i].hasMeta /\ controllers[i].meta.prefix # UNDEFINED)
           => \A j \in DOMAIN controllers[i].meta.routes :
                LET r == controllers[i].meta.routes[j]
                    p == controllers[i].meta.prefix \o r.path
                IN  /\ p \in DOMAIN RootValue.paths
                    /\ r.requestMethod \in DOMAIN RootValue.paths[p]
    /\ \A p \in DOMAIN RootValue.paths : \A m \in DOMAIN RootValue.paths[p] :
         \E i \in DOMAIN controllers :
           /\ controllers[i].hasMeta /\ controllers[i].meta.prefix # UNDEFINED
           /\ \E j \in DOMAIN controllers[i].meta.routes :
                LET r == controllers[i].meta.routes[j]
                IN  p = controllers[i].meta.prefix \o r.path /\ m = r.requestMethod

\* the calls of build in history; the k-th of them wrote console[k]
BuildCalls == {i \in DOMAIN history : history[i].op = "build"}
OutputOf(i) == console[Cardinality({j \in BuildCalls : j <= i})]
Finished(i) == Cardinality({j \in BuildCalls : j <= i}) <= Len(console)
IsSetter(call) == call.op \in {"addTitle", "addDesc", "addApplicationVersion"}
IsBuildStep == pc # "idle" \/ pc' # "idle"

\* C6: two finished builds with no setter call between them wrote the same
\* document, and no step of build changes the builder's title, description
\* and version or the controllers' metadata.
C6_Idempotent ==
  /\ [](\A i, j \in BuildCalls :
          (i < j /\ Finished(j)
             /\ \A k \in (i + 1)..(j - 1) : ~IsSetter(history[k]))
            => OutputOf(i) = OutputOf(j))
  /\ [][IsBuildStep =>
          UNCHANGED <<title, desc, applicationVersion, controllers>>]_vars

\* two builds in a row of a controller whose PARAM argument is published,
\* with the same document written twice
C6_Witness ==
  /\ pc = "idle" /\ Len(console) = 2
  /\ history[Len(history) - 1].op = "build" /\ history[Len(history)].op = "build"
  /\ console[1] = console[2]
  /\ \E p \in DOMAIN console[2].paths : \E m \in DOMAIN console[2].paths[p] :
       \E k \in DOMAIN console[2].paths[p][m].parameters :
         console[2].paths[p][m].parameters[k].in = "path"

\* the argument of the last call of a setter before call i of history, or
\* the default where there is none
LastGiven(op, i, default) ==
  LET given == {j \in 1..(i - 1) : history[j].op = op}
  IN  IF given = {} THEN default
      ELSE history[CHOOSE j \in given : \A k \in given : k <= j].arg

\* C7: a setter returns the builder and changes its own field only, and the
\* info of a built document holds, for title, description and version, the
\* value of the last call of that field's setter before the build, or the
\* default if there was none.
C7_Header ==
  /\ [][(pc = "idle" /\ pc' = "idle" /\ Len(history') = Len(history) + 1)
          => LET call == history'[Len(history')]
             IN  /\ ret' = This
                 /\ call.op = "addTitle" =>
                      title' = call.arg /\ UNCHANGED <<desc, applicationVersion>>
                 /\ call.op = "addDesc" =>
                      desc' = call.arg /\ UNCHANGED <<title, applicationVersion>>
                 /\ call.op = "addApplicationVersion" =>
                      applicationVersion' = call.arg /\ UNCHANGED <<title, desc>>
                 /\ UNCHANGED <<controllers, build_vars>>]_vars
  /\ [](\A i \in BuildCalls :
          Finished(i) =>
            OutputOf(i).info =
              [title |-> LastGiven("addTitle", i, DEFAULT_TITLE),
               version |-> LastGiven("addApplicationVersion", i, APP_VERSION),
               description |-> LastGiven("addDesc", i, DEFAULT_DESC)])

\* the title set twice, the description never, then a build of no
\* controllers at all: the second title and the default description
C7_Witness ==
  /\ Built /\ controllers = <<>>
  /\ Len(history) = 3
  /\ history[1].op = "addTitle" /\ history[2].op = "addTitle"
  /\ history[1].arg # history[2].arg
  /\ history[3].op = "build"
  /\ console[1].info.title = history[2].arg
  /\ console[1].info.description = DEFAULT_DESC
  /\ console[1].info.version = "1.0.0"
  /\ console[1].paths = <<>>

\* C9: the i-th parameter a step stores has schema.type equal to the i-th
\* element of argTypes for the route, undefined where argTypes has no entry
\* for the route or no i-th element; there are as many parameters as
\* published arguments, whatever the length of the types.
C9_ParameterTypes ==
  [][IsRouteStep =>
       LET params == paths'[StepPath][StepRoute.requestMethod].parameters
           name == StepRoute.methodName
           types == StepMeta.argTypes
       IN  /\ Len(params) = Len(PublishedArgs(StepMeta, StepRoute))
           /\ \A i \in DOMAIN params :
                params[i].schema.type =
                  IF name \in DOMAIN types /\ i <= Len(types[name])
                  THEN types[name][i] ELSE UNDEFINED]_vars

\* both routes stored: m1 with two published arguments and a single type,
\* its second parameter without type; m2, which argTypes has no entry for,
\* with its one parameter without type
C9_Witness ==
  /\ JustStored /\ ri = 3
  /\ DOMAIN StepMeta.argTypes = {"m1"}
  /\ Len(StepMeta.argTypes["m1"]) = 1
  /\ Len(paths["/a/x"]["GET"].parameters) = 2
  /\ paths["/a/x"]["GET"].parameters[1].schema.type = "string"
  /\ paths["/a/x"]["GET"].parameters[2].schema.type = UNDEFINED
  /\ Len(LastOperation.parameters) = 1
  /\ LastOperation.parameters[1].schema.type = UNDEFINED

\* C10: the description a step stores is the model.description of the first
\* docs entry whose docFor is the route's methodName, and the methodName
\* where docs has no such entry; docs entries of other names play no part.
C10_Description ==
  [][IsRouteStep =>
       LET own == SelectSeq(StepMeta.docs,
                            LAMBDA d : d.docFor = StepRoute.methodName)
       IN  paths'[StepPath][StepRoute.requestMethod].description =
             IF own = <<>> THEN StepRoute.methodName
             ELSE own[1].model.description]_vars

\* both routes stored, docs holding two entries of m1 and none of m2: m1
\* has the description of the first entry, m2 its methodName
C10_Witness ==
  /\ JustStored /\ ri = 3
  /\ Len(StepMeta.docs) >= 2
  /\ StepMeta.docs[1].docFor = "m1" /\ StepMeta.docs[2].docFor = "m1"
  /\ StepMeta.docs[1].model.description # StepMeta.docs[2].model.description
  /\ \A i \in DOMAIN StepMeta.docs : StepMeta.docs[i].docFor # "m2"
  /\ paths["/a/x"]["GET"].description = StepMeta.docs[1].model.description
  /\ LastOperation.description = "m2"

==========================================================================
